---- MODULE Spec2Model ----
(***************************************************************************)
(* The self-update engine of ota-updater: the host's update loop           *)
(* (main.go), CheckAndUpdate / downloadAndApplyUpdate of the hosted-repo   *)
(* and the custom-server updater, the deferred replacement script of the   *)
(* locking platform, and the file system they act on; and the update       *)
(* server (server/server.go) with its releases directory.                  *)
(***************************************************************************)
EXTENDS Integers, Sequences, FiniteSets, TLC

(***************************************************************************)
(* Bounds                                                                  *)
(***************************************************************************)
\* update checks started over the whole run (all process generations)
MaxAttempts == 2
\* binaries 0..MaxBin exist; 0 is the one installed at the start
MaxBin == 2
\* length in bytes of a complete binary
BinLen == 2
\* upload requests the update server takes over the whole run
MaxUploads == 2

(***************************************************************************)
(* Strings are sequences of one-character strings.                         *)
(***************************************************************************)
\* the characters used, in ASCII order
Alphabet == <<"-", ".", "0", "1", "2", "3", "4", "5", "6", "7", "8", "9",
              "A", "B", "C", "D", "E", "F",
              "a", "b", "c", "d", "e", "f", "l", "v", "w", "x">>

Ord(c) == CHOOSE i \in 1..Len(Alphabet) : Alphabet[i] = c

\* a string comparison a < b in the place of a <= b
RECURSIVE StrLess(_, _)
StrLess(a, b) ==
    IF b = <<>> THEN FALSE
    ELSE IF a = <<>> THEN TRUE
    ELSE IF Ord(Head(a)) < Ord(Head(b)) THEN TRUE
    ELSE IF Ord(Head(a)) > Ord(Head(b)) THEN FALSE
    ELSE StrLess(Tail(a), Tail(b))

\* Go's string comparison a <= b: bytewise lexicographic
RECURSIVE StrLeq(_, _)
StrLeq(a, b) ==
    IF a = <<>> THEN TRUE
    ELSE IF b = <<>> THEN FALSE
    ELSE IF Ord(Head(a)) < Ord(Head(b)) THEN TRUE
    ELSE IF Ord(Head(a)) > Ord(Head(b)) THEN FALSE
    ELSE StrLeq(Tail(a), Tail(b))

\* strings.HasPrefix
HasPrefix(s, p) == Len(s) >= Len(p) /\ SubSeq(s, 1, Len(p)) = p

\* strings.TrimPrefix
TrimPrefix(s, p) == IF HasPrefix(s, p) THEN SubSeq(s, Len(p) + 1, Len(s)) ELSE s

\* strings.Contains
Contains(s, sub) ==
    \E i \in 0..(Len(s) - Len(sub)) : SubSeq(s, i + 1, i + Len(sub)) = sub

\* unicode simple case folding restricted to the hex letters
ToLower(c) ==
    CASE c = "A" -> "a" [] c = "B" -> "b" [] c = "C" -> "c"
      [] c = "D" -> "d" [] c = "E" -> "e" [] c = "F" -> "f"
      [] OTHER -> c

ToUpperStr(s) ==
    [i \in 1..Len(s) |->
        CASE s[i] = "a" -> "A" [] s[i] = "b" -> "B" [] s[i] = "c" -> "C"
          [] s[i] = "d" -> "D" [] s[i] = "e" -> "E" [] s[i] = "f" -> "F"
          [] OTHER -> s[i]]

\* a comparison that does not fold case
EqualExact(s, t) == s = t

\* strings.EqualFold
EqualFold(s, t) ==
    /\ Len(s) = Len(t)
    /\ \A i \in 1..Len(s) : ToLower(s[i]) = ToLower(t[i])

(***************************************************************************)
(* File contents and digests                                               *)
(***************************************************************************)
\* the bytes of binary b
Bytes(b) == [i \in 1..BinLen |-> b]

\* the binary a complete file content is
BinOf(data) == data[1]

\* what a copy that failed midway has written: a proper prefix
Prefixes(data) == { SubSeq(data, 1, k) : k \in 0..(Len(data) - 1) }

\* sha256 over the bytes: an injective digest on the contents of the model
RECURSIVE Sum256From(_, _)
Sum256From(n, data) ==
    IF data = <<>> THEN n % 256
    ELSE Sum256From(n * (MaxBin + 2) + Head(data) + 1, Tail(data))

Sum256(data) == Sum256From(1, data)

HexDigits == <<"0", "1", "2", "3", "4", "5", "6", "7",
               "8", "9", "a", "b", "c", "d", "e", "f">>

\* hex.EncodeToString: lower-case hex
EncodeToString(n) == <<HexDigits[(n \div 16) + 1], HexDigits[(n % 16) + 1]>>

(***************************************************************************)
(* The file system                                                         *)
(***************************************************************************)
NoFile == [exists |-> FALSE, data |-> <<>>, exec |-> FALSE]

File(d, x) == [exists |-> TRUE, data |-> d, exec |-> x]

\* os.CreateTemp gives each attempt a name of its own
TempPath(n) == <<"tmp", n>>

ExecutablePath == <<"exe", 0>>
\* executablePath + ".bak"
BackupPath == <<"bak", 0>>
\* filepath.Join(os.TempDir(), "update.bat")
BatchPath == <<"bat", 0>>

Paths == {ExecutablePath, BackupPath, BatchPath} \cup
         { TempPath(n) : n \in 1..MaxAttempts }

(***************************************************************************)
(* Releases                                                                *)
(***************************************************************************)
\* version.Version built into binary b (-X version.Version=<tag> at build time)
VersionTable == << <<"1">>, <<"v", "1">>, <<"1", "0">>, <<"9">>, <<"3">> >>

VersionOf(b) == VersionTable[b + 1]

Binaries == 0..MaxBin

\* tag names a release can carry
Tags == { <<"1">>, <<"v", "1">>, <<"1", "0">>, <<"9">> }

\* runtime.GOOS of the two replacement models, runtime.GOARCH
Platforms == {<<"l">>, <<"w">>}
Arch == <<"a">>

IsWindows(p) == p = <<"w">>

\* a download URL names the binary the server serves there
Asset(nm, u) == [name |-> nm, url |-> u]

AssetLists ==
    { <<>>,
      << Asset(<<"d", "-", "a">>, 1) >>,
      << Asset(<<"x", "-", "l", "-", "a">>, 1), Asset(<<"x", "-", "w", "-", "a">>, 1) >>,
      << Asset(<<"d", "-", "a">>, 1), Asset(<<"l", "-", "a">>, 2),
         Asset(<<"l", "-", "a", "2">>, 1), Asset(<<"w", "-", "a">>, 2) >> }

\* the checksum field of the custom server's version info: none, the digest
\* of a binary in lower case, that of the first one in upper case as well
Checksums == {<<>>} \cup
    { EncodeToString(Sum256(Bytes(b))) : b \in 1..MaxBin } \cup
    { ToUpperStr(EncodeToString(Sum256(Bytes(1)))) }

\* the version names the update server can have stored as its latest
ServerVersions == { <<>>, <<"1">>, <<"v", "1">>, <<"9">> }

NoURL == 0

\* os.Args[1:] of the application as the user started it
OrigArgs == << <<"-", "c">>, <<"x">> >>

\* strings.Join(args, " ")
RECURSIVE JoinArgs(_)
JoinArgs(args) ==
    IF args = <<>> THEN <<>>
    ELSE IF Len(args) = 1 THEN Head(args)
    ELSE Head(args) \o <<" ">> \o JoinArgs(Tail(args))

\* the words cmd.exe passes on from the rest of a start line
RECURSIVE SplitArgs(_)
SplitArgs(line) ==
    IF line = <<>> THEN <<>>
    ELSE IF Head(line) = " " THEN SplitArgs(Tail(line))
    ELSE LET n == CHOOSE k \in 1..Len(line) :
                      /\ \A i \in 1..k : line[i] # " "
                      /\ k = Len(line) \/ line[k + 1] = " "
         IN <<SubSeq(line, 1, n)>> \o SplitArgs(SubSeq(line, n + 1, Len(line)))

(***************************************************************************)
(* The update server's releases directory and its requests                 *)
(***************************************************************************)
\* the version names releases are uploaded under
UploadVersions == { <<"1", "0">>, <<"9">> }

\* os.ReadDir lists the entries sorted by filename
DirEntries == << <<"1", "0">>, <<"9">> >>

\* the VersionInfo uploadHandler writes (without the release date; the
\* download URL is the version's own)
VersionInfo(version, checksum) == [version |-> version, checksum |-> checksum]

\* what json.Unmarshal gets from a metadata file that is created but not, or
\* not wholly, written: nothing
NoInfo == [version |-> <<>>, checksum |-> <<>>]

\* <version>.bin and <version>.json of one version
NoRelease ==
    [bin |-> [exists |-> FALSE, data |-> <<>>],
     json |-> [exists |-> FALSE, info |-> NoInfo]]

\* a multipart upload request: the method, whether the form parses, the
\* form values, whether there is a "binary" part and the binary it carries
UploadRequest(version, binary) ==
    [method |-> "POST", form |-> TRUE, platform |-> <<"l">>, arch |-> Arch,
     version |-> version, part |-> TRUE, binary |-> binary]

\* the requests sent: well-formed ones with one of two binaries, and one
\* short of each thing
UploadRequests ==
    { UploadRequest(v, b) : v \in UploadVersions, b \in {1, 2} } \cup
    { [UploadRequest(<<"9">>, 1) EXCEPT !.method = "GET"],
      [UploadRequest(<<"9">>, 1) EXCEPT !.form = FALSE],
      [UploadRequest(<<"9">>, 1) EXCEPT !.platform = <<>>],
      [UploadRequest(<<"9">>, 1) EXCEPT !.arch = <<>>],
      [UploadRequest(<<"9">>, 1) EXCEPT !.version = <<>>],
      [UploadRequest(<<"9">>, 1) EXCEPT !.part = FALSE] }

\* the versions clients ask /check with
CurrentVersions == { <<"1">>, <<"1", "0">>, <<"9">> }

\* net/http runs each request's handler in a goroutine of its own: the
\* goroutines that can be inside uploadHandler at once
Handlers == {"a", "b"}

\* a handler: its request and where it is
Idle == [pc |-> "idle", req |-> UploadRequest(<<"9">>, 1)]

\* a response: the endpoint, the request as far as it matters (the upload
\* request, the current version asked with, the version asked for), the
\* status, and the body as far as it matters
NoResponse ==
    [to |-> "none", req |-> UploadRequest(<<"9">>, 1), current |-> <<>>,
     version |-> <<>>, status |-> 0, info |-> NoInfo, data |-> <<>>]

(***************************************************************************)
(* State                                                                   *)
(***************************************************************************)
VARIABLES
    platform,   \* runtime.GOOS of the build
    variant,    \* the updater built in: "hosted" (raw GitHub API), "gogithub"
                \* (go-github client) or "custom" (the repository's update server)
    fs,         \* the files: path -> file
    alive,      \* the application process is running
    running,    \* the binary the application process was started from
    proc,       \* how it was started (by whom, its command line, the exit status
                \* of the process that started it) and how it ended
    others,     \* further instances of the application started while one runs
    pc,         \* where the update goroutine of the process is
    attempts,   \* number of checks started so far
    att,        \* the locals of the check in progress (or of the last one)
    ret,        \* what CheckAndUpdate returned: (applied, err)
    script,     \* the deferred replacement scripts, by the attempt that launched them
    store,      \* the update server's releases directory: version -> its files
    up,         \* the update server's upload handlers: where each one is
    uploads,    \* number of upload requests the server has taken so far
    sent        \* the response the update server sent last

\* the state of the update server, a program of its own
Server == <<store, up, uploads, sent>>

\* the state of the application and its updater
Client == <<platform, variant, fs, alive, running, proc, others, pc, attempts, att, ret, script>>

vars == <<platform, variant, fs, alive, running, proc, others, pc, attempts, att, ret, script,
          store, up, uploads, sent>>

Variants == {"hosted", "gogithub", "custom"}

Nil == "nil"
ErrFetch == "failed to get latest release"
ErrNoAsset == "no suitable asset found"
ErrDownload == "failed to download update"
ErrStatus == "download failed with status code"
ErrCreateTemp == "failed to create temp file"
ErrWrite == "failed to write downloaded file"
ErrChecksum == "checksum verification failed"
ErrChmod == "failed to set permissions"
ErrBackup == "failed to create backup"
ErrReplace == "failed to replace executable"
ErrScript == "failed to start update.bat"

\* the locals of a check and the outcome of each step it took
NoAttempt ==
    [n |-> 0, status |-> 0, decoded |-> FALSE, tag |-> <<>>, assets |-> <<>>,
     url |-> NoURL, checksum |-> <<>>, temp |-> FALSE,
     preExe |-> NoFile, preBak |-> NoFile,
     download |-> "none", write |-> "none",
     actual |-> <<>>, verify |-> "none", chmod |-> "none", backup |-> "none",
     rename |-> "none", rollback |-> "none", launch |-> "none"]

\* a script: the line it is at, its <new> file, the bytes downloaded for it,
\* and whether the call that launched it has returned
NoScript ==
    [pc |-> "none", new |-> TempPath(1), args |-> <<>>, bytes |-> <<>>, returned |-> FALSE]

\* a process holds the executable's file open while it runs it
Locked == alive \/ others > 0

Init ==
    /\ platform \in Platforms
    /\ variant \in Variants
    /\ fs = [p \in Paths |->
                IF p = ExecutablePath THEN File(Bytes(0), TRUE) ELSE NoFile]
    /\ alive = TRUE
    /\ running = 0
    /\ proc = [by |-> "user", path |-> ExecutablePath, args |-> OrigArgs,
               left |-> "none", end |-> "none"]
    /\ others = 0
    /\ pc = "check"
    /\ attempts = 0
    /\ att = NoAttempt
    /\ ret = [applied |-> FALSE, err |-> Nil]
    /\ script = [n \in 1..MaxAttempts |-> NoScript]
    /\ store = [v \in UploadVersions |-> NoRelease]
    /\ up = [h \in Handlers |-> Idle]
    /\ uploads = 0
    /\ sent = NoResponse

\* a return statement of CheckAndUpdate / downloadAndApplyUpdate; the deferred
\* os.Remove(tempPath) runs once the temp file has been created
Return(applied, err) ==
    /\ ret' = [applied |-> applied, err |-> err]
    /\ pc' = IF att.temp THEN "defer" ELSE "returned"

\* a return of CheckAndUpdate before downloadAndApplyUpdate is called
ReturnEarly(applied, err) ==
    /\ ret' = [applied |-> applied, err |-> err]
    /\ pc' = "returned"

(***************************************************************************)
(* CheckAndUpdate up to the call of downloadAndApplyUpdate                 *)
(***************************************************************************)
\* an asset loop without its break: the last matching asset wins
ResolveAssetLast(assets, assetName) ==
    LET found == { i \in 1..Len(assets) : Contains(assets[i].name, assetName) } IN
    IF found = {} THEN NoURL
    ELSE assets[CHOOSE i \in found : \A j \in found : j <= i].url

\* the first asset whose name contains "<platform>-<arch>"
RECURSIVE ResolveAsset(_, _)
ResolveAsset(assets, assetName) ==
    IF assets = <<>> THEN NoURL
    ELSE IF Contains(Head(assets).name, assetName) THEN Head(assets).url
    ELSE ResolveAsset(Tail(assets), assetName)

AssetName == platform \o <<"-">> \o Arch

\* a comparison by length first, as of numbers without leading zeros
UpToDateByLength(tag, current) ==
    LET latestVersion == TrimPrefix(tag, <<"v">>)
        currentVersion == TrimPrefix(current, <<"v">>) IN
    \/ Len(latestVersion) < Len(currentVersion)
    \/ Len(latestVersion) = Len(currentVersion) /\ StrLeq(latestVersion, currentVersion)

\* latestVersion <= currentVersion after trimming one "v"
UpToDate(tag, current) ==
    StrLeq(TrimPrefix(tag, <<"v">>), TrimPrefix(current, <<"v">>))

NewAttempt ==
    [NoAttempt EXCEPT !.n = attempts + 1,
                      !.preExe = fs[ExecutablePath],
                      !.preBak = fs[BackupPath]]

\* a getLatestRelease for which an empty list is an error
ReleaseOutcomeEmptyIsError(decoded, releases) ==
    IF ~decoded \/ releases = <<>> THEN "error" ELSE "release"

\* getLatestRelease: an error unless the response is 200 and decodes; with
\* CheckPrerelease nil for an empty list and else its first release
ReleaseOutcome(decoded, releases) ==
    IF ~decoded THEN "error"
    ELSE IF Len(releases) = 0 THEN "none"
    ELSE "release"

\* the release lists the hosting service can answer with
ReleaseLists == {<<>>} \cup { <<tag>> : tag \in Tags }

CheckAndUpdateHosted ==
    /\ pc = "check" /\ variant = "hosted"
    /\ attempts < MaxAttempts
    /\ attempts' = attempts + 1
    /\ \E decoded \in BOOLEAN, releases \in ReleaseLists :
         IF ReleaseOutcome(decoded, releases) = "error"
         THEN /\ att' = [NewAttempt EXCEPT !.decoded = decoded]
              /\ ReturnEarly(FALSE, ErrFetch)
         ELSE IF ReleaseOutcome(decoded, releases) = "none"
         THEN /\ att' = [NewAttempt EXCEPT !.decoded = decoded]
              /\ ReturnEarly(FALSE, Nil)
         ELSE LET tag == releases[1] IN
              IF UpToDate(tag, VersionOf(running))
              THEN /\ att' = [NewAttempt EXCEPT !.decoded = decoded, !.tag = tag]
                   /\ ReturnEarly(FALSE, Nil)
              ELSE \E assets \in AssetLists :
                   IF ResolveAsset(assets, AssetName) = NoURL
                   THEN /\ att' = [NewAttempt EXCEPT
                                      !.decoded = decoded, !.tag = tag, !.assets = assets]
                        /\ ReturnEarly(FALSE, ErrNoAsset)
                   ELSE /\ att' = [NewAttempt EXCEPT
                                      !.decoded = decoded, !.tag = tag, !.assets = assets,
                                      !.url = ResolveAsset(assets, AssetName)]
                        /\ pc' = "download"
                        /\ UNCHANGED ret
    /\ UNCHANGED <<Server, platform, variant, fs, alive, running, proc, others, script>>

\* a comparison with < in the place of <=
UpToDateGoGithubStrict(tag, current) ==
    /\ StrLeq(TrimPrefix(tag, <<"v">>), current)
    /\ TrimPrefix(tag, <<"v">>) # current

\* the go-github client: latestVersion <= currentVersion with the "v" trimmed
\* from the release tag only
UpToDateGoGithub(tag, current) ==
    StrLeq(TrimPrefix(tag, <<"v">>), current)

CheckAndUpdateGoGithub ==
    /\ pc = "check" /\ variant = "gogithub"
    /\ attempts < MaxAttempts
    /\ attempts' = attempts + 1
    /\ \/ \* a malformed GithubRepo, or GetLatestRelease fails
          /\ att' = NewAttempt
          /\ ReturnEarly(FALSE, ErrFetch)
       \/ \E tag \in Tags :
            IF UpToDateGoGithub(tag, VersionOf(running))
            THEN /\ att' = [NewAttempt EXCEPT !.tag = tag]
                 /\ ReturnEarly(FALSE, Nil)
            ELSE \E assets \in AssetLists :
                 IF ResolveAsset(assets, AssetName) = NoURL
                 THEN /\ att' = [NewAttempt EXCEPT !.tag = tag, !.assets = assets]
                      /\ ReturnEarly(FALSE, ErrNoAsset)
                 ELSE /\ att' = [NewAttempt EXCEPT
                                    !.tag = tag, !.assets = assets,
                                    !.url = ResolveAsset(assets, AssetName)]
                      /\ pc' = "download"
                      /\ UNCHANGED ret
    /\ UNCHANGED <<Server, platform, variant, fs, alive, running, proc, others, script>>

\* the update server's checkHandler answers 200 with the version info when
\* this holds of the version it stores as latest, and 404 otherwise
CheckHandler(latestVersion, currentVersion) ==
    ~(latestVersion = <<>> \/ StrLeq(latestVersion, currentVersion))

\* the statuses checkHandler can answer with: 500 when it cannot read its
\* store, else 200 or 404 by its comparison
ServerStatus(latestVersion, currentVersion) ==
    {500} \cup {IF CheckHandler(latestVersion, currentVersion) THEN 200 ELSE 404}

\* a client that knows no "not found" answer
CheckResponseNoNotFound(status) ==
    IF status # 200 THEN "error" ELSE "ok"

\* what the custom client makes of the status of the check response
CheckResponse(status) ==
    IF status = 404 THEN "no update"
    ELSE IF status # 200 THEN "error"
    ELSE "ok"

CheckAndUpdateCustom ==
    /\ pc = "check" /\ variant = "custom"
    /\ attempts < MaxAttempts
    /\ attempts' = attempts + 1
    /\ \/ \* client.Get fails
          /\ att' = NewAttempt
          /\ ReturnEarly(FALSE, ErrFetch)
       \/ \E latestVersion \in ServerVersions :
          \E status \in ServerStatus(latestVersion, VersionOf(running)) :
            IF CheckResponse(status) = "no update"
            THEN /\ att' = [NewAttempt EXCEPT !.tag = latestVersion, !.status = status]
                 /\ ReturnEarly(FALSE, Nil)
            ELSE IF CheckResponse(status) = "error"
            THEN /\ att' = [NewAttempt EXCEPT !.status = status]
                 /\ ReturnEarly(FALSE, ErrFetch)
            ELSE \/ \* the body does not decode
                    /\ att' = [NewAttempt EXCEPT !.tag = latestVersion, !.status = status]
                    /\ ReturnEarly(FALSE, ErrFetch)
                 \/ \E u \in 1..MaxBin, sum \in Checksums :
                      /\ att' = [NewAttempt EXCEPT
                                    !.tag = latestVersion, !.status = status,
                                    !.url = u, !.checksum = sum]
                      /\ pc' = "download"
                      /\ UNCHANGED ret
    /\ UNCHANGED <<Server, platform, variant, fs, alive, running, proc, others, script>>

(***************************************************************************)
(* downloadAndApplyUpdate                                                  *)
(***************************************************************************)
Engine == <<Server, platform, variant, alive, running, proc, others, attempts, script>>

\* client.Do / client.Get and the status check
Download ==
    /\ pc = "download"
    /\ \/ /\ att' = [att EXCEPT !.download = "error"]
          /\ Return(FALSE, ErrDownload)
       \/ /\ att' = [att EXCEPT !.download = "status"]
          /\ Return(FALSE, ErrStatus)
       \/ /\ att' = [att EXCEPT !.download = "ok"]
          /\ pc' = "createtemp" /\ UNCHANGED ret
    /\ UNCHANGED fs
    /\ UNCHANGED Engine

\* os.CreateTemp(tmpDir, "update_*.bin"): a new empty file, mode 0600
CreateTemp ==
    /\ pc = "createtemp"
    /\ \/ /\ Return(FALSE, ErrCreateTemp)
          /\ UNCHANGED <<fs, att>>
       \/ /\ fs' = [fs EXCEPT ![TempPath(att.n)] = File(<<>>, FALSE)]
          /\ att' = [att EXCEPT !.temp = TRUE]
          /\ pc' = "write"
          /\ UNCHANGED ret
    /\ UNCHANGED Engine

\* an io.Copy whose error is dropped
WriteTempIgnoresError ==
    /\ pc = "write"
    /\ \/ \E part \in Prefixes(Bytes(att.url)) :
            /\ fs' = [fs EXCEPT ![TempPath(att.n)].data = part]
            /\ att' = [att EXCEPT !.write = "fail"]
       \/ /\ fs' = [fs EXCEPT ![TempPath(att.n)].data = Bytes(att.url)]
          /\ att' = [att EXCEPT !.write = "ok"]
    /\ pc' = IF variant = "custom" THEN "verify" ELSE "chmod"
    /\ UNCHANGED ret
    /\ UNCHANGED Engine

\* io.Copy of the response body into the temp file, then tempFile.Close()
WriteTemp ==
    /\ pc = "write"
    /\ \/ \E part \in Prefixes(Bytes(att.url)) :
            /\ fs' = [fs EXCEPT ![TempPath(att.n)].data = part]
            /\ att' = [att EXCEPT !.write = "fail"]
            /\ Return(FALSE, ErrWrite)
       \/ /\ fs' = [fs EXCEPT ![TempPath(att.n)].data = Bytes(att.url)]
          /\ att' = [att EXCEPT !.write = "ok"]
          /\ pc' = IF variant = "custom" THEN "verify" ELSE "chmod"
          /\ UNCHANGED ret
    /\ UNCHANGED Engine

\* verifyChecksum(tempPath, versionInfo.Checksum), custom-server variant only
VerifyChecksum ==
    /\ pc = "verify"
    /\ \/ \* os.Open or the read fails
          /\ att' = [att EXCEPT !.verify = "ioerr"]
          /\ Return(FALSE, ErrChecksum)
       \/ LET actualChecksum == EncodeToString(Sum256(fs[TempPath(att.n)].data)) IN
          IF ~EqualFold(actualChecksum, att.checksum)
          THEN /\ att' = [att EXCEPT !.verify = "mismatch", !.actual = actualChecksum]
               /\ Return(FALSE, ErrChecksum)
          ELSE /\ att' = [att EXCEPT !.verify = "ok", !.actual = actualChecksum]
               /\ pc' = "chmod"
               /\ UNCHANGED ret
    /\ UNCHANGED fs
    /\ UNCHANGED Engine

\* a chmod whose error is dropped
ChmodIgnoresError ==
    /\ pc = "chmod"
    /\ \/ /\ att' = [att EXCEPT !.chmod = "fail"]
          /\ UNCHANGED fs
       \/ /\ fs' = [fs EXCEPT ![TempPath(att.n)].exec = TRUE]
          /\ att' = [att EXCEPT !.chmod = "ok"]
    /\ pc' = "backup"
    /\ UNCHANGED ret
    /\ UNCHANGED Engine

\* os.Chmod(tempPath, 0755)
Chmod ==
    /\ pc = "chmod"
    /\ \/ /\ att' = [att EXCEPT !.chmod = "fail"]
          /\ Return(FALSE, ErrChmod)
          /\ UNCHANGED fs
       \/ /\ fs' = [fs EXCEPT ![TempPath(att.n)].exec = TRUE]
          /\ att' = [att EXCEPT !.chmod = "ok"]
          /\ pc' = "backup"
          /\ UNCHANGED ret
    /\ UNCHANGED Engine

\* os.Create(dst): truncates an existing file and keeps its mode, creates a
\* missing one with mode 0666 (before umask): not executable
Created(f) == IF f.exists THEN File(<<>>, f.exec) ELSE File(<<>>, FALSE)

\* a copyFile that drops the error of io.Copy
CopyFileDropsError(files, src, dst) ==
    { [fs |-> files, ok |-> FALSE] } \cup
    { [fs |-> [files EXCEPT ![dst] = [Created(files[dst]) EXCEPT !.data = part]],
       ok |-> TRUE] : part \in Prefixes(files[src].data) \cup {files[src].data} }

\* copyFile(src, dst): the file system after it, and whether it failed
CopyFileOutcomes(files, src, dst) ==
    \* os.Open(src) or os.Create(dst) fails: nothing written
    { [fs |-> files, ok |-> FALSE] } \cup
    \* io.Copy fails midway
    { [fs |-> [files EXCEPT ![dst] = [Created(files[dst]) EXCEPT !.data = part]],
       ok |-> FALSE] : part \in Prefixes(files[src].data) } \cup
    { [fs |-> [files EXCEPT ![dst] = [Created(files[dst]) EXCEPT !.data = files[src].data]],
       ok |-> TRUE] }

\* a backup step that goes on to the replacement whatever copyFile returned
BackupIgnoresError ==
    /\ pc = "backup"
    /\ \E o \in CopyFileOutcomes(fs, ExecutablePath, BackupPath) :
         /\ fs' = o.fs
         /\ att' = [att EXCEPT !.backup = IF o.ok THEN "ok" ELSE "fail"]
         /\ pc' = IF IsWindows(platform) THEN "script" ELSE "rename"
         /\ UNCHANGED ret
    /\ UNCHANGED Engine

\* backupPath := executablePath + ".bak"; copyFile(executablePath, backupPath)
Backup ==
    /\ pc = "backup"
    /\ \E o \in CopyFileOutcomes(fs, ExecutablePath, BackupPath) :
         /\ fs' = o.fs
         /\ IF o.ok
            THEN /\ att' = [att EXCEPT !.backup = "ok"]
                 /\ pc' = IF IsWindows(platform) THEN "script" ELSE "rename"
                 /\ UNCHANGED ret
            ELSE /\ att' = [att EXCEPT !.backup = "fail"]
                 /\ Return(FALSE, ErrBackup)
    /\ UNCHANGED Engine

\* a rename that unlinks the old path without installing it at the new one
RenamedLosesFile(files, oldpath, newpath) ==
    [files EXCEPT ![oldpath] = NoFile]

\* a rename that copies: the old path stays
RenamedKeepsOld(files, oldpath, newpath) ==
    [files EXCEPT ![newpath] = files[oldpath]]

\* os.Rename(oldpath, newpath) that succeeds: newpath is replaced atomically
Renamed(files, oldpath, newpath) ==
    [files EXCEPT ![newpath] = files[oldpath], ![oldpath] = NoFile]

\* os.Rename(tempPath, executablePath) on the non-locking platforms
Rename ==
    /\ pc = "rename"
    /\ \/ /\ fs' = Renamed(fs, TempPath(att.n), ExecutablePath)
          /\ att' = [att EXCEPT !.rename = "ok"]
          /\ Return(TRUE, Nil)
       \/ /\ att' = [att EXCEPT !.rename = "fail"]
          /\ pc' = "rollback"
          /\ UNCHANGED <<fs, ret>>
    /\ UNCHANGED Engine

\* a rollback that renames in the wrong direction
RollbackWrongDirection ==
    /\ pc = "rollback"
    /\ \/ /\ fs' = Renamed(fs, ExecutablePath, BackupPath)
          /\ att' = [att EXCEPT !.rollback = "ok"]
       \/ /\ att' = [att EXCEPT !.rollback = "fail"]
          /\ UNCHANGED fs
    /\ Return(FALSE, ErrReplace)
    /\ UNCHANGED Engine

\* os.Rename(backupPath, executablePath), its error dropped, then the return
\* of the replace error
Rollback ==
    /\ pc = "rollback"
    /\ \/ /\ fs' = Renamed(fs, BackupPath, ExecutablePath)
          /\ att' = [att EXCEPT !.rollback = "ok"]
       \/ /\ att' = [att EXCEPT !.rollback = "fail"]
          /\ UNCHANGED fs
    /\ Return(FALSE, ErrReplace)
    /\ UNCHANGED Engine

\* replaceExecutableWindows(tempPath, executablePath): write update.bat and
\* start it detached; downloadAndApplyUpdate returns (true, its error)
ReplaceExecutableWindows ==
    /\ pc = "script"
    /\ \/ \* os.WriteFile fails
          /\ att' = [att EXCEPT !.launch = "fail"]
          /\ Return(TRUE, ErrScript)
          /\ UNCHANGED <<fs, script>>
       \/ \* cmd.Start fails
          /\ fs' = [fs EXCEPT ![BatchPath] = File(<<>>, TRUE)]
          /\ att' = [att EXCEPT !.launch = "fail"]
          /\ Return(TRUE, ErrScript)
          /\ UNCHANGED script
       \/ /\ fs' = [fs EXCEPT ![BatchPath] = File(<<>>, TRUE)]
          /\ att' = [att EXCEPT !.launch = "ok"]
          /\ script' = [script EXCEPT ![att.n] =
                            [pc |-> "ping", new |-> TempPath(att.n),
                             args |-> JoinArgs(proc.args),
                             bytes |-> fs[TempPath(att.n)].data, returned |-> FALSE]]
          /\ Return(TRUE, Nil)
    /\ UNCHANGED <<Server, platform, variant, alive, running, proc, others, attempts>>

\* a return without the deferred removal
ReturnWithoutRemove ==
    /\ pc = "defer"
    /\ pc' = "returned"
    /\ script' = IF att.launch = "ok"
                 THEN [script EXCEPT ![att.n].returned = TRUE]
                 ELSE script
    /\ UNCHANGED <<fs, att, ret>>
    /\ UNCHANGED <<Server, platform, variant, alive, running, proc, others, attempts>>

\* defer os.Remove(tempPath)
RemoveTemp ==
    /\ pc = "defer"
    /\ fs' = [fs EXCEPT ![TempPath(att.n)] = NoFile]
    /\ pc' = "returned"
    /\ script' = IF att.launch = "ok"
                 THEN [script EXCEPT ![att.n].returned = TRUE]
                 ELSE script
    /\ UNCHANGED <<att, ret>>
    /\ UNCHANGED <<Server, platform, variant, alive, running, proc, others, attempts>>

(***************************************************************************)
(* The host: checkForUpdates and the update loop of main.go                *)
(***************************************************************************)
\* a loop that checks again at once when no update was found
CheckForUpdatesNoWait ==
    /\ pc = "returned"
    /\ IF ret.err # Nil
       THEN pc' = "sleep" /\ UNCHANGED <<running, proc, att>>
       ELSE IF ret.applied
       THEN \/ /\ fs[ExecutablePath].exists
               /\ running' = BinOf(fs[ExecutablePath].data)
               /\ proc' = [by |-> "restart", path |-> ExecutablePath,
                           args |-> proc.args, left |-> "status 0",
                           end |-> "none"]
               /\ pc' = "check"
               /\ att' = NoAttempt
            \/ /\ pc' = "sleep" /\ UNCHANGED <<running, proc, att>>
       ELSE pc' = "check" /\ UNCHANGED <<running, proc, att>>
    /\ UNCHANGED <<Server, platform, variant, fs, alive, others, attempts, ret, script>>

\* a checkForUpdates that calls CheckAndUpdate again at once after an error
CheckForUpdatesRetry ==
    /\ pc = "returned"
    /\ IF ret.err # Nil
       THEN pc' = "check" /\ UNCHANGED <<running, proc, att>>
       ELSE IF ret.applied
       THEN \/ /\ fs[ExecutablePath].exists
               /\ running' = BinOf(fs[ExecutablePath].data)
               /\ proc' = [by |-> "restart", path |-> ExecutablePath,
                           args |-> proc.args, left |-> "status 0",
                           end |-> "none"]
               /\ pc' = "check"
               /\ att' = NoAttempt
            \/ /\ pc' = "sleep" /\ UNCHANGED <<running, proc, att>>
       ELSE pc' = "sleep" /\ UNCHANGED <<running, proc, att>>
    /\ UNCHANGED <<Server, platform, variant, fs, alive, others, attempts, ret, script>>

\* a checkForUpdates that ends the process on an error (log.Fatalf)
CheckForUpdatesFatal ==
    /\ pc = "returned"
    /\ IF ret.err # Nil
       THEN /\ alive' = FALSE /\ pc' = "dead"
            /\ proc' = [proc EXCEPT !.end = "status 1"]
            /\ UNCHANGED <<running, att>>
       ELSE /\ UNCHANGED alive
            /\ IF ret.applied
               THEN \/ /\ fs[ExecutablePath].exists
                       /\ running' = BinOf(fs[ExecutablePath].data)
                       /\ proc' = [by |-> "restart", path |-> ExecutablePath,
                                   args |-> proc.args, left |-> "status 0",
                                   end |-> "none"]
                       /\ pc' = "check"
                       /\ att' = NoAttempt
                    \/ /\ pc' = "sleep" /\ UNCHANGED <<running, proc, att>>
               ELSE pc' = "sleep" /\ UNCHANGED <<running, proc, att>>
    /\ UNCHANGED <<Server, platform, variant, fs, others, attempts, ret, script>>

\* a checkForUpdates that looks at hasUpdate before it looks at err, and
\* restarts with all of os.Args as the arguments
CheckForUpdatesRestartFirst ==
    /\ pc = "returned"
    /\ IF ret.applied
       THEN \/ /\ fs[ExecutablePath].exists
               /\ running' = BinOf(fs[ExecutablePath].data)
               /\ proc' = [by |-> "restart", path |-> ExecutablePath,
                           args |-> <<proc.path>> \o proc.args, left |-> "status 0",
                           end |-> "none"]
               /\ pc' = "check"
               /\ att' = NoAttempt
            \/ /\ pc' = "sleep" /\ UNCHANGED <<running, proc, att>>
       ELSE pc' = "sleep" /\ UNCHANGED <<running, proc, att>>
    /\ UNCHANGED <<Server, platform, variant, fs, alive, others, attempts, ret, script>>

\* a RestartApplication that exits whether or not the spawn succeeded
CheckForUpdatesExitAnyway ==
    /\ pc = "returned"
    /\ IF ret.err # Nil
       THEN pc' = "sleep" /\ UNCHANGED <<alive, running, proc, att>>
       ELSE IF ret.applied
       THEN \/ /\ fs[ExecutablePath].exists
               /\ running' = BinOf(fs[ExecutablePath].data)
               /\ proc' = [by |-> "restart", path |-> ExecutablePath,
                           args |-> proc.args, left |-> "status 0",
                           end |-> "none"]
               /\ pc' = "check"
               /\ att' = NoAttempt
               /\ UNCHANGED alive
            \/ /\ alive' = FALSE /\ pc' = "dead"
               /\ proc' = [proc EXCEPT !.end = "status 0"]
               /\ UNCHANGED <<running, att>>
       ELSE pc' = "sleep" /\ UNCHANGED <<alive, running, proc, att>>
    /\ UNCHANGED <<Server, platform, variant, fs, others, attempts, ret, script>>

\* the rest of checkForUpdates after CheckAndUpdate returned
CheckForUpdatesReturn ==
    /\ pc = "returned"
    /\ IF ret.err # Nil
       THEN \* log.Printf("Update error: %v", err); return
            pc' = "sleep" /\ UNCHANGED <<running, proc, att>>
       ELSE IF ret.applied
       THEN \* updater.RestartApplication(os.Args[0], os.Args[1:])
            \/ \* cmd.Start succeeds, os.Exit(0): the new process takes over
               /\ fs[ExecutablePath].exists
               /\ running' = BinOf(fs[ExecutablePath].data)
               /\ proc' = [by |-> "restart", path |-> ExecutablePath,
                           args |-> proc.args, left |-> "status 0",
                           end |-> "none"]
               /\ pc' = "check"
               /\ att' = NoAttempt
            \/ \* cmd.Start fails: logged, the process goes on
               /\ pc' = "sleep" /\ UNCHANGED <<running, proc, att>>
       ELSE pc' = "sleep" /\ UNCHANGED <<running, proc, att>>
    /\ UNCHANGED <<Server, platform, variant, fs, alive, others, attempts, ret, script>>

\* time.Sleep(cfg.UpdateInterval), then the next iteration of the loop
Sleep ==
    /\ pc = "sleep"
    /\ pc' = "check"
    /\ UNCHANGED <<Server, platform, variant, fs, alive, running, proc, others, attempts, att, ret, script>>

\* a shutdown that leaves the update goroutine running
TerminateKeepsRunning ==
    /\ alive
    /\ alive' = FALSE
    /\ proc' = [proc EXCEPT !.end = "killed"]
    /\ UNCHANGED <<Server, platform, variant, fs, running, others, pc, attempts, att, ret, script>>

\* the process is ended from outside (the host has no handler for it)
Terminate ==
    /\ alive
    /\ alive' = FALSE
    /\ proc' = [proc EXCEPT !.end = "killed"]
    /\ pc' = "dead"
    /\ UNCHANGED <<Server, platform, variant, fs, running, others, attempts, att, ret, script>>

(***************************************************************************)
(* update.bat, one step per line of the batch file                         *)
(***************************************************************************)
ScriptVars == <<Server, platform, variant, attempts, att, ret>>

\* :retry / ping -n 2 127.0.0.1 > nul
ScriptPing(n) ==
    /\ script[n].pc = "ping"
    /\ script' = [script EXCEPT ![n].pc = "del"]
    /\ UNCHANGED <<fs, alive, running, proc, others, pc>>
    /\ UNCHANGED ScriptVars

\* a script without the if exist line: it goes on whether or not del worked
ScriptDelNoRetry(n) ==
    /\ script[n].pc = "del"
    /\ IF Locked /\ fs[ExecutablePath].exists
       THEN UNCHANGED fs
       ELSE fs' = [fs EXCEPT ![ExecutablePath] = NoFile]
    /\ script' = [script EXCEPT ![n].pc = "copy"]
    /\ UNCHANGED <<alive, running, proc, others, pc>>
    /\ UNCHANGED ScriptVars

\* del "<target>" / if exist "<target>" goto retry
ScriptDel(n) ==
    /\ script[n].pc = "del"
    /\ IF Locked /\ fs[ExecutablePath].exists
       THEN /\ script' = [script EXCEPT ![n].pc = "ping"]
            /\ UNCHANGED fs
       ELSE /\ fs' = [fs EXCEPT ![ExecutablePath] = NoFile]
            /\ script' = [script EXCEPT ![n].pc = "copy"]
    /\ UNCHANGED <<alive, running, proc, others, pc>>
    /\ UNCHANGED ScriptVars

\* copy /y "<new>" "<target>"
ScriptCopy(n) ==
    /\ script[n].pc = "copy"
    /\ IF fs[script[n].new].exists /\ ~(Locked /\ fs[ExecutablePath].exists)
       THEN fs' = [fs EXCEPT ![ExecutablePath] = fs[script[n].new]]
       ELSE UNCHANGED fs
    /\ script' = [script EXCEPT ![n].pc = "start"]
    /\ UNCHANGED <<alive, running, proc, others, pc>>
    /\ UNCHANGED ScriptVars

\* start "" "<target>" <args>
ScriptStart(n) ==
    /\ script[n].pc = "start"
    /\ IF ~fs[ExecutablePath].exists
       THEN UNCHANGED <<alive, running, proc, others, pc, att>>
       ELSE IF Locked
       THEN others' = others + 1 /\ UNCHANGED <<alive, running, proc, pc, att>>
       ELSE /\ alive' = TRUE
            /\ running' = BinOf(fs[ExecutablePath].data)
            /\ proc' = [by |-> "script", path |-> ExecutablePath,
                        args |-> SplitArgs(script[n].args), left |-> "none",
                        end |-> "none"]
            /\ pc' = "check"
            /\ att' = NoAttempt
            /\ UNCHANGED others
    /\ script' = [script EXCEPT ![n].pc = "delnew"]
    /\ UNCHANGED <<Server, fs, platform, variant, attempts, ret>>

\* del "<new>"
ScriptDelNew(n) ==
    /\ script[n].pc = "delnew"
    /\ fs' = [fs EXCEPT ![script[n].new] = NoFile]
    /\ script' = [script EXCEPT ![n].pc = "delself"]
    /\ UNCHANGED <<alive, running, proc, others, pc>>
    /\ UNCHANGED ScriptVars

\* del "%~f0"
ScriptDelSelf(n) ==
    /\ script[n].pc = "delself"
    /\ fs' = [fs EXCEPT ![BatchPath] = NoFile]
    /\ script' = [script EXCEPT ![n].pc = "done"]
    /\ UNCHANGED <<alive, running, proc, others, pc>>
    /\ UNCHANGED ScriptVars

Next ==
    \/ CheckAndUpdateHosted
    \/ CheckAndUpdateGoGithub
    \/ CheckAndUpdateCustom
    \/ Download
    \/ CreateTemp
    \/ WriteTemp
    \/ VerifyChecksum
    \/ Chmod
    \/ Backup
    \/ Rename
    \/ Rollback
    \/ ReplaceExecutableWindows
    \/ RemoveTemp
    \/ CheckForUpdatesReturn
    \/ Sleep
    \/ Terminate
    \/ \E n \in 1..MaxAttempts : ScriptPing(n)
    \/ \E n \in 1..MaxAttempts : ScriptDel(n)
    \/ \E n \in 1..MaxAttempts : ScriptCopy(n)
    \/ \E n \in 1..MaxAttempts : ScriptStart(n)
    \/ \E n \in 1..MaxAttempts : ScriptDelNew(n)
    \/ \E n \in 1..MaxAttempts : ScriptDelSelf(n)

Spec == Init /\ [][Next]_vars

\* the update goroutine is scheduled, and time.Sleep returns
LiveSpec ==
    /\ Spec
    /\ WF_vars(CheckForUpdatesReturn)
    /\ WF_vars(Sleep)
    /\ WF_vars(CheckAndUpdateHosted \/ CheckAndUpdateGoGithub \/ CheckAndUpdateCustom)

TypeOK ==
    /\ platform \in Platforms
    /\ variant \in Variants
    /\ alive \in BOOLEAN
    /\ running \in Binaries
    /\ attempts \in 0..MaxAttempts
    /\ ret.applied \in BOOLEAN

(***************************************************************************)
(* The update server: uploadHandler, checkHandler, downloadHandler         *)
(***************************************************************************)
\* the handler answers its request with this status and returns
Answer(h, req, status) ==
    /\ up' = [up EXCEPT ![h] = Idle]
    /\ sent' = [NoResponse EXCEPT !.to = "upload", !.req = req, !.status = status]

\* uploadHandler from its start to os.Create(binPath)
UploadHandler(h) ==
    /\ up[h].pc = "idle"
    /\ uploads < MaxUploads
    /\ uploads' = uploads + 1
    /\ \E req \in UploadRequests :
         IF req.method # "POST"
         THEN Answer(h, req, 405) /\ UNCHANGED store
         ELSE IF ~req.form
         THEN \* r.ParseMultipartForm fails
              Answer(h, req, 400) /\ UNCHANGED store
         ELSE IF req.platform = <<>> \/ req.arch = <<>> \/ req.version = <<>>
         THEN Answer(h, req, 400) /\ UNCHANGED store
         ELSE IF ~req.part
         THEN \* r.FormFile("binary") fails
              Answer(h, req, 400) /\ UNCHANGED store
         ELSE \/ \* os.MkdirAll or os.Create fails
                 Answer(h, req, 500) /\ UNCHANGED store
              \/ \* os.Create(binPath): a new empty file, or the old one truncated
                 /\ store' = [store EXCEPT ![req.version].bin =
                                  [exists |-> TRUE, data |-> <<>>]]
                 /\ up' = [up EXCEPT ![h] = [pc |-> "copy", req |-> req]]
                 /\ UNCHANGED sent
    /\ UNCHANGED Client

\* what a file holds after these bytes are written from its start through
\* a descriptor of its own: what it held beyond them stays
WriteOver(data, bytes) == bytes \o SubSeq(data, Len(bytes) + 1, Len(data))

\* io.Copy(multiWriter, file): the bytes go to the file and to the hash; then
\* dst.Close()
UploadCopy(h) ==
    /\ up[h].pc = "copy"
    /\ LET version == up[h].req.version
           bytes == Bytes(up[h].req.binary) IN
       \/ \* the read or the write fails midway
          \E part \in Prefixes(bytes) :
            /\ store' = [store EXCEPT ![version].bin.data = WriteOver(@, part)]
            /\ Answer(h, up[h].req, 500)
       \/ /\ store' = [store EXCEPT ![version].bin.data = WriteOver(@, bytes)]
          /\ up' = [up EXCEPT ![h].pc = "chmod"]
          /\ UNCHANGED sent
    /\ UNCHANGED uploads
    /\ UNCHANGED Client

\* os.Chmod(binPath, 0755)
UploadChmod(h) ==
    /\ up[h].pc = "chmod"
    /\ \/ Answer(h, up[h].req, 500)
       \/ up' = [up EXCEPT ![h].pc = "meta"] /\ UNCHANGED sent
    /\ UNCHANGED <<store, uploads>>
    /\ UNCHANGED Client

\* os.Create(metaPath): a new empty file, or the old one truncated
UploadCreateMeta(h) ==
    /\ up[h].pc = "meta"
    /\ \/ /\ Answer(h, up[h].req, 500)
          /\ UNCHANGED store
       \/ /\ store' = [store EXCEPT ![up[h].req.version].json =
                           [exists |-> TRUE, info |-> NoInfo]]
          /\ up' = [up EXCEPT ![h].pc = "encode"]
          /\ UNCHANGED sent
    /\ UNCHANGED uploads
    /\ UNCHANGED Client

\* json.NewEncoder(metaFile).Encode(versionInfo) with the checksum of the
\* bytes that went through the hash, then 201
UploadEncode(h) ==
    /\ up[h].pc = "encode"
    /\ \/ /\ Answer(h, up[h].req, 500)
          /\ UNCHANGED store
       \/ LET version == up[h].req.version
              checksum == EncodeToString(Sum256(Bytes(up[h].req.binary))) IN
          /\ store' = [store EXCEPT ![version].json.info = VersionInfo(version, checksum)]
          /\ Answer(h, up[h].req, 201)
    /\ UNCHANGED uploads
    /\ UNCHANGED Client

\* a findLatestVersion that keeps the first version it can read
RECURSIVE FindFirstVersion(_, _, _)
FindFirstVersion(files, latestVersion, versionInfo) ==
    IF files = <<>> THEN [version |-> latestVersion, info |-> versionInfo]
    ELSE LET version == Head(files) IN
         IF ~store[version].json.exists \/ store[version].json.info = NoInfo
         THEN FindFirstVersion(Tail(files), latestVersion, versionInfo)
         ELSE IF latestVersion = <<>>
         THEN FindFirstVersion(Tail(files), version, store[version].json.info)
         ELSE FindFirstVersion(Tail(files), latestVersion, versionInfo)

\* the loop of findLatestVersion over the .json files of the directory: a
\* file that does not decode is skipped
RECURSIVE FindLatestVersion(_, _, _)
FindLatestVersion(files, latestVersion, versionInfo) ==
    IF files = <<>> THEN [version |-> latestVersion, info |-> versionInfo]
    ELSE LET version == Head(files) IN
         IF ~store[version].json.exists \/ store[version].json.info = NoInfo
         THEN FindLatestVersion(Tail(files), latestVersion, versionInfo)
         ELSE IF latestVersion = <<>> \/ ~StrLeq(version, latestVersion)
         THEN FindLatestVersion(Tail(files), version, store[version].json.info)
         ELSE FindLatestVersion(Tail(files), latestVersion, versionInfo)

\* checkHandler for /check/<platform>/<arch>/<currentVersion>
CheckRequest ==
    /\ \/ \* a path of fewer than five parts
          sent' = [NoResponse EXCEPT !.to = "check", !.status = 400]
       \/ \* os.ReadDir fails
          sent' = [NoResponse EXCEPT !.to = "check", !.status = 500]
       \/ \E currentVersion \in CurrentVersions :
            LET response(status, info) ==
                    sent' = [NoResponse EXCEPT !.to = "check", !.current = currentVersion,
                                               !.status = status, !.info = info]
                latest == FindLatestVersion(DirEntries, <<>>, NoInfo)
            IN
            IF CheckHandler(latest.version, currentVersion)
            THEN response(200, latest.info)
            ELSE response(404, NoInfo)
    /\ UNCHANGED <<store, up, uploads>>
    /\ UNCHANGED Client

\* downloadHandler for /download/<platform>/<arch>/<version>
DownloadRequest ==
    /\ \/ \* a path of fewer than five parts
          sent' = [NoResponse EXCEPT !.to = "download", !.status = 400]
       \/ \E version \in UploadVersions :
            LET response(status, data) ==
                    sent' = [NoResponse EXCEPT !.to = "download", !.version = version,
                                               !.status = status, !.data = data]
            IN
            IF ~store[version].bin.exists
            THEN response(404, <<>>)
            ELSE \* http.ServeFile
                 response(200, store[version].bin.data)
    /\ UNCHANGED <<store, up, uploads>>
    /\ UNCHANGED Client

ServerNext ==
    \/ \E h \in Handlers : UploadHandler(h)
    \/ \E h \in Handlers : UploadCopy(h)
    \/ \E h \in Handlers : UploadChmod(h)
    \/ \E h \in Handlers : UploadCreateMeta(h)
    \/ \E h \in Handlers : UploadEncode(h)
    \/ CheckRequest
    \/ DownloadRequest

\* the server on its own, no client of it running
ServerInit == Init /\ platform = <<"l">> /\ variant = "custom"

ServerSpec == ServerInit /\ [][ServerNext]_vars

(***************************************************************************)
(* Properties                                                              *)
(***************************************************************************)
\* CheckAndUpdate has returned to checkForUpdates: the attempt is over
AtReturn == alive /\ pc = "returned"

\* the attempt reported success
Success == ret.applied /\ ret.err = Nil

Exe == fs[ExecutablePath]
Bak == fs[BackupPath]

\* (a) of the lifecycle invariant
NewInstalled ==
    /\ Exe.exists /\ Exe.data = Bytes(att.url)
    /\ Bak.exists /\ Bak.data = att.preExe.data

\* (b) of the lifecycle invariant
OldInPlace == Exe.exists /\ Exe.data = att.preExe.data

\* C1 as stated: at the end of every attempt, on any platform, either the
\* attempt reported success, executablePath holds the new binary and the
\* backup the pre-attempt binary, or it reported no update or a failure and
\* executablePath holds the pre-attempt binary.
C1_LifecycleAnyPlatform ==
    AtReturn => IF Success THEN NewInstalled ELSE OldInPlace

\* C1 amended: on the non-locking path exactly one of (a) and (b) holds as
\* stated; on the locking path an attempt that reports success returns with
\* executablePath still holding the pre-attempt binary and the backup a
\* copy of it, and one that reports no update or a failure leaves
\* executablePath holding the pre-attempt binary.
C1_Lifecycle ==
    AtReturn =>
        IF Success /\ ~IsWindows(platform) THEN NewInstalled
        ELSE IF Success
        THEN OldInPlace /\ Bak.exists /\ Bak.data = att.preExe.data
        ELSE OldInPlace

C1_Witness ==
    /\ AtReturn /\ Success /\ ~IsWindows(platform)
    /\ att.rename = "ok"
    /\ Exe.data # att.preExe.data

\* C2: in every reachable state, while the engine runs and while the deferred
\* script runs after the process exited, a file exists at executablePath.
C2_ExecutableNeverMissing == Exe.exists

\* C3: after an attempt on the non-locking path whose replace rename failed
\* and whose rollback rename was performed, the file at executablePath has
\* executable permission bits.
C3_RollbackLeavesExecutable ==
    (AtReturn /\ att.rename = "fail" /\ att.rollback = "ok") => Exe.exec

\* the steps of the swap
TouchesExecutable == alive /\ fs'[ExecutablePath] # fs[ExecutablePath]
Launches == \E n \in 1..MaxAttempts : script[n].pc = "none" /\ script'[n].pc # "none"
RollsBack == att.rollback = "none" /\ att'.rollback # "none"
Confirms == pc # "returned" /\ pc' \in {"defer", "returned"} /\ ret'.applied

\* C4: within one attempt no rename over executablePath, no rollback and no
\* launch of the deferred script happens before the copy of the current
\* executable to the backup path has completed successfully; a rollback
\* happens only after a failed replace, and success is returned only after
\* the replace or the hand-over to the script.
C4_BackupBeforeSwap ==
    [][ /\ (TouchesExecutable \/ Launches \/ RollsBack \/ Confirms) =>
            /\ att.backup = "ok"
            /\ Bak.exists /\ Bak.data = att.preExe.data
            /\ att'.n = att.n
        /\ RollsBack => att.rename = "fail"
        /\ (Confirms /\ ~IsWindows(platform)) =>
              (att'.rename = "ok" /\ att'.rollback = "none")
      ]_vars

C4_Witness ==
    /\ AtReturn /\ att.backup = "ok" /\ att.rename = "fail" /\ att.rollback = "ok"

\* C5: if copying the current executable to the backup path fails, the
\* attempt returns (false, error), no rename, rollback or script launch is
\* attempted and executablePath is exactly as before the attempt.
C5_BackupFailureAborts ==
    (alive /\ att.backup = "fail") =>
        /\ pc \in {"defer", "returned", "sleep", "check"}
        /\ ret = [applied |-> FALSE, err |-> ErrBackup]
        /\ att.rename = "none" /\ att.rollback = "none" /\ att.launch = "none"
        /\ script[att.n].pc = "none"
        /\ Exe = att.preExe

C5_Witness ==
    /\ AtReturn /\ att.backup = "fail"
    /\ Bak.exists /\ Bak.data # att.preExe.data

\* C6: on the non-locking path, if the backup succeeded and the rename of
\* the temp file over executablePath fails, then after the attempt the
\* original content is at executablePath and the attempt reports failure.
C6_ReplaceFailureRestores ==
    (alive /\ pc \in {"defer", "returned"} /\ att.backup = "ok" /\ att.rename = "fail") =>
        /\ Exe.exists /\ Exe.data = att.preExe.data
        /\ ret.applied = FALSE /\ ret.err # Nil

C6_Witness ==
    /\ AtReturn /\ ~IsWindows(platform)
    /\ att.backup = "ok" /\ att.rename = "fail" /\ att.rollback = "fail"

\* what the caller gets from a replace failure whose rollback succeeded
RecoveredReplaceFailed == [applied |-> FALSE, err |-> ErrReplace]

\* C7: when the replace rename fails and the rollback rename fails too, the
\* attempt returns an outcome the caller can tell from the recovered replace
\* failure.
C7_RollbackFailureEscalated ==
    (AtReturn /\ att.rename = "fail" /\ att.rollback = "fail") =>
        ret # RecoveredReplaceFailed

\* two hex strings that are equal up to letter case
SameHex(s, t) == ToUpperStr(s) = ToUpperStr(t)

\* C8: with an expected checksum supplied, a digest of the downloaded bytes
\* that differs from it (compared without regard to case) fails the attempt:
\* the temp file is removed, no backup or replacement step runs,
\* executablePath and the backup are as before; a digest equal to it up to
\* case lets the attempt go on to the swap.
C8_ChecksumGate ==
    (alive /\ att.checksum # <<>> /\ att.verify \in {"ok", "mismatch"}) =>
        /\ att.verify = "ok" <=> SameHex(att.actual, att.checksum)
        /\ (att.verify = "ok" /\ att.chmod = "none") => pc = "chmod"
        /\ att.verify = "mismatch" =>
              /\ pc \in {"defer", "returned", "sleep", "check"}
              /\ pc # "defer" => ~fs[TempPath(att.n)].exists
              /\ ret = [applied |-> FALSE, err |-> ErrChecksum]
              /\ att.chmod = "none" /\ att.backup = "none" /\ att.rename = "none"
              /\ att.rollback = "none" /\ att.launch = "none"
              /\ Exe = att.preExe /\ Bak = att.preBak

C8_Witness ==
    /\ AtReturn /\ att.checksum # <<>> /\ att.verify = "mismatch"
    /\ att.actual = EncodeToString(Sum256(Bytes(att.url)))

\* C9: when the source supplies no expected checksum (absent or empty),
\* verification is skipped and the attempt goes on to backup and
\* replacement, in the custom-server variant as in the hosted-repo variant.
C9_NoChecksumSkipsVerification ==
    (att.n > 0 /\ att.checksum = <<>>) => att.verify # "mismatch"

\* C10: when an attempt has completed, on every path, the temp file it
\* created is no longer on disk.
C10_TempRemoved ==
    (alive /\ pc \in {"returned", "sleep"} /\ att.n > 0) =>
        ~fs[TempPath(att.n)].exists

C10_Witness ==
    /\ AtReturn /\ att.temp /\ IsWindows(platform) /\ att.launch = "ok"


(***************************************************************************)
(* The deferred script after the process has exited                        *)
(***************************************************************************)
\* the copy line of the script of attempt n runs
CopyLine(n) == script[n].pc = "copy" /\ script'[n].pc = "start"

\* C11: on the locking platform, once the script is launched, the call that
\* launched it has returned and no process holds the executable any more, the
\* copy line of the script leaves the downloaded binary at executablePath.
C11_ScriptInstallsNew ==
    [][\A n \in 1..MaxAttempts :
          (CopyLine(n) /\ script[n].returned /\ ~Locked) =>
              /\ fs'[ExecutablePath].exists
              /\ fs'[ExecutablePath].data = script[n].bytes]_vars


(***************************************************************************)
(* The version comparator and the asset resolver                           *)
(***************************************************************************)
\* a version string without its one optional leading "v"
StripV(v) == IF Len(v) > 0 /\ v[1] = "v" THEN SubSeq(v, 2, Len(v)) ELSE v

\* a precedes b in the lexicographic order of strings
LexLess(a, b) ==
    \E k \in 1..Len(b) :
        /\ k <= Len(a) + 1
        /\ \A i \in 1..(k - 1) : a[i] = b[i]
        /\ k = Len(a) + 1 \/ Ord(a[k]) < Ord(b[k])

IsNewer(candidate, current) == LexLess(StripV(current), StripV(candidate))

\* CheckAndUpdate is called and obtains a release
ChecksRelease(v) ==
    /\ pc = "check" /\ variant = v
    /\ attempts' = attempts + 1
    /\ att'.tag # <<>>

NoUpdate == pc' = "returned" /\ ret' = [applied |-> FALSE, err |-> Nil]

\* C12: the hosted comparator treats the candidate as newer exactly when
\* stripV(candidate) is lexicographically greater than stripV(current); so
\* "9" is newer than "10".
C12_NewerIffLexGreater ==
    [][ChecksRelease("hosted") =>
          (~NoUpdate <=> IsNewer(att'.tag, VersionOf(running)))]_vars

C12_Witness ==
    /\ variant = "hosted" /\ pc = "download"
    /\ VersionOf(running) = <<"1", "0">>
    /\ att.tag = <<"9">>

\* C13: a candidate equal to the current version, with or without a leading
\* "v" on either side, is not newer: the check returns (false, nil) and
\* writes nothing.
C13_EqualIsNotNewer ==
    [][\A v \in {"hosted", "gogithub"} :
          (ChecksRelease(v) /\ StripV(att'.tag) = StripV(VersionOf(running))) =>
              (NoUpdate /\ fs' = fs)]_vars

C13_Witness ==
    /\ variant = "gogithub" /\ pc = "returned"
    /\ VersionOf(running) = <<"v", "1">>
    /\ att.tag = <<"1">>
    /\ ret = [applied |-> FALSE, err |-> Nil]

\* key occurs in name
IsSubstring(key, name) ==
    \E k \in 0..(Len(name) - Len(key)) : SubSeq(name, k + 1, k + Len(key)) = key

\* the positions of the assets whose name contains "<platform>-<arch>"
Matching(assets) ==
    { i \in 1..Len(assets) :
        IsSubstring(platform \o <<"-">> \o Arch, assets[i].name) }

\* the comparator of the variant built in found the release newer
FoundNewer ==
    \/ ChecksRelease("hosted") /\ ~UpToDate(att'.tag, VersionOf(running))
    \/ ChecksRelease("gogithub") /\ ~UpToDateGoGithub(att'.tag, VersionOf(running))

\* C14: asset resolution yields the URL of the first asset, in the order
\* given, whose name contains "<platform>-<arch>", and the download starts
\* with it; with no such asset the attempt returns the no-asset error, having
\* downloaded and written nothing.
C14_FirstMatchingAsset ==
    [][FoundNewer =>
          IF Matching(att'.assets) = {}
          THEN /\ pc' = "returned"
               /\ ret' = [applied |-> FALSE, err |-> ErrNoAsset]
               /\ att'.url = NoURL /\ ~att'.temp
               /\ fs' = fs
          ELSE /\ pc' = "download"
               /\ \E i \in Matching(att'.assets) :
                     /\ \A j \in Matching(att'.assets) : i <= j
                     /\ att'.url = att'.assets[i].url]_vars

\* the first of two matching assets was taken
C14_Witness ==
    /\ pc = "download"
    /\ \E i, j \in Matching(att.assets) :
          i < j /\ att.assets[i].url # att.assets[j].url /\ att.url = att.assets[i].url

\* assets are listed, none matches
C14_WitnessNoAsset ==
    /\ pc = "returned" /\ ret.err = ErrNoAsset
    /\ att.assets # <<>>


\* C15: a check that finds the latest tag equal to the current version
\* returns (false, nil) and leaves every file as it was, in each variant and
\* each time it is made.
C15_UpToDateChangesNothing ==
    [][(pc = "check" /\ attempts' = attempts + 1 /\ att'.tag = VersionOf(running)) =>
          (NoUpdate /\ fs' = fs)]_vars

\* the check was made a second time by the same binary with the same answer
C15_Witness ==
    /\ pc = "returned" /\ att.n = 2
    /\ running = 0 /\ att.tag = VersionOf(running)
    /\ ret = [applied |-> FALSE, err |-> Nil]
    /\ fs[ExecutablePath] = File(Bytes(0), TRUE)


\* C16: no attempt takes its backup step unless the candidate it found is
\* newer than the running version by the comparator (one leading "v"
\* stripped from each, then lexicographic order), whichever variant is built
\* in; for the custom variant the candidate is the version the server offered.
C16_GatedByComparator ==
    att.backup # "none" => IsNewer(att.tag, VersionOf(running))


(***************************************************************************)
(* The update loop                                                         *)
(***************************************************************************)
\* a process starts: RestartApplication after an applied update, or the
\* start line of a script
ProcessStarts ==
    \/ ~alive /\ alive'
    \/ pc = "returned" /\ ret.applied /\ ret.err = Nil /\ pc' = "check"

\* a call of CheckAndUpdate is in progress
InCall == pc \notin {"check", "returned", "sleep", "dead"}

\* C17: checks of a process never overlap: a call of CheckAndUpdate starts
\* only when none is in progress, the loop comes to its next call only out of
\* the interval wait (or as a newly started process), and it enters the wait
\* only when the previous call has returned, whatever its outcome.
C17_ChecksDoNotOverlap ==
    [][/\ attempts' # attempts => (~InCall /\ pc = "check" /\ attempts' = attempts + 1)
       /\ (pc' = "check" /\ pc # "check") => (pc = "sleep" \/ ProcessStarts)
       /\ (pc' = "sleep" /\ pc # "sleep") => pc = "returned"]_vars

\* the second call of a loop is in progress
C17_Witness == attempts = 2 /\ InCall /\ att.n = 2

\* C18: once the process is shut down with the attempt short of its backup
\* step, the attempt takes no further step: no backup, no replacement, the
\* backup file as it was, and the executable changed by nothing but a script
\* of an earlier attempt.
C18_ShutdownBeforeBackup ==
    [][(~alive /\ ~alive' /\ att.n > 0 /\ att.backup = "none") =>
          /\ att' = att /\ pc' = pc
          /\ fs'[BackupPath] = fs[BackupPath]
          /\ fs'[ExecutablePath] # fs[ExecutablePath] =>
                \E n \in 1..MaxAttempts : n < att.n /\ script'[n] # script[n]]_vars

\* a download abandoned at shutdown, the executable as the attempt found it
C18_Witness ==
    /\ ~alive /\ att.temp /\ att.backup = "none"
    /\ fs[TempPath(att.n)].exists
    /\ fs[ExecutablePath] = att.preExe /\ fs[BackupPath] = att.preBak

\* C19: the update loop of a process stops only at its interval wait, not in
\* the middle of a check.
C19_StopsAtWait ==
    [][(alive /\ ~alive') => pc = "sleep"]_vars

\* C20: after a failed check the loop makes no further call before the
\* interval wait: its next step is into the wait (unless the process ends).
C20_NoRetryWithinTick ==
    [][(pc = "returned" /\ ret.err # Nil /\ pc' # pc) =>
          (pc' \in {"sleep", "dead"} /\ attempts' = attempts /\ att' = att)]_vars

\* the loop waits after a replace failure whose rollback failed too
C20_Witness ==
    /\ pc = "sleep" /\ ret.err = ErrReplace
    /\ att.rename = "fail" /\ att.rollback = "fail"


(***************************************************************************)
(* The host: failures, restart                                             *)
(***************************************************************************)
\* C21: no failure of a check ends the process (a process that is not alive
\* was ended from outside), and after a failed check the loop, unless the
\* process is ended from outside, eventually starts another check.
C21_LoopSurvivesFailure ==
    /\ [](~alive => proc.end = "killed")
    /\ \A k \in 1..(MaxAttempts - 1) :
          (pc = "returned" /\ ret.err # Nil /\ attempts = k) ~> (attempts > k \/ ~alive)

\* the second check of a process whose first check failed to fetch
C21_Witness ==
    /\ alive /\ InCall /\ att.n = 2
    /\ proc.by = "user" /\ ret.err = ErrFetch


\* the host's step that replaces the process by a newly spawned one
Restarts == alive /\ pc = "returned" /\ pc' = "check"

\* C22: the host restarts only after a check returned (true, nil); the new
\* process is started from executablePath with the original arguments, the
\* old one exits with status 0 and its loop does not go on.
C22_RestartAfterApplied ==
    [][Restarts =>
          /\ ret.applied /\ ret.err = Nil
          /\ fs[ExecutablePath].exists
          /\ alive' /\ running' = BinOf(fs[ExecutablePath].data)
          /\ proc' = [by |-> "restart", path |-> ExecutablePath, args |-> OrigArgs,
                      left |-> "status 0", end |-> "none"]
          /\ att' = NoAttempt /\ attempts' = attempts]_vars

\* the new binary runs, restarted by the host
C22_Witness ==
    /\ alive /\ pc = "check" /\ proc.by = "restart"
    /\ running # 0 /\ Exe.data = Bytes(running)

\* C23: when the spawn of the new process fails, the process does not exit:
\* it goes on as it was, from the old binary, into the interval wait.
C23_SpawnFailureContinues ==
    [][(alive /\ pc = "returned" /\ Success
             /\ pc' \notin {"returned", "check"} /\ proc'.end # "killed") =>
          /\ alive' /\ pc' = "sleep"
          /\ running' = running /\ proc' = proc
          /\ fs' = fs]_vars

\* the swap succeeded, the restart did not: the old process waits
C23_Witness ==
    /\ alive /\ pc = "sleep" /\ Success
    /\ proc.by = "user" /\ running = 0
    /\ att.rename = "ok" /\ Exe.data # Bytes(running)


(***************************************************************************)
(* Outcomes of an attempt                                                  *)
(***************************************************************************)
\* C24: an attempt returns (true, nil) only on the non-locking path after the
\* rename succeeded, with executablePath holding the new binary; the hand-over
\* to the script returns something else.
C24_ConfirmedOnlyAfterRename ==
    (alive /\ pc \in {"defer", "returned"} /\ Success) =>
        /\ ~IsWindows(platform) /\ att.rename = "ok"
        /\ Exe.exists /\ Exe.data = Bytes(att.url)


\* C25: in the custom variant a check answered 404 returns (false, nil) and
\* one with any other status than 200 returns (false, error); either way the
\* attempt has asked for no download and has created or changed no file.
C25_NonOkCheckResponses ==
    (alive /\ variant = "custom" /\ att.n > 0 /\ att.status \notin {0, 200}) =>
        /\ pc \in {"returned", "sleep", "check"}
        /\ ret = [applied |-> FALSE,
                  err |-> IF att.status = 404 THEN Nil ELSE ErrFetch]
        /\ att.url = NoURL /\ ~att.temp
        /\ ~fs[TempPath(att.n)].exists
        /\ Exe = att.preExe /\ Bak = att.preBak

\* a 404 for a client that runs what the server has
C25_Witness ==
    /\ alive /\ variant = "custom" /\ pc = "returned"
    /\ att.status = 404 /\ att.tag = VersionOf(running)
    /\ ret = [applied |-> FALSE, err |-> Nil]


(***************************************************************************)
(* What an attempt leaves on disk                                          *)
(***************************************************************************)
\* no call of CheckAndUpdate is in progress and no script is running
Quiet ==
    /\ alive /\ ~InCall
    /\ \A n \in 1..MaxAttempts : script[n].pc \in {"none", "done"}

\* C26: once the attempts made so far are over, on either platform path, no
\* file the engine wrote remains but executablePath and the backup: no temp
\* file and no script file.
C26_OnlyBackupRemains ==
    Quiet => \A p \in Paths \ {ExecutablePath, BackupPath} : ~fs[p].exists


\* C27: the backup and the replacement are reached only after the chmod of
\* the temp file succeeded, so the file renamed over executablePath is
\* executable; a failed chmod ends the attempt with (false, error),
\* executablePath and the backup as they were.
C27_ExecutableBeforeSwap ==
    /\ (att.backup # "none" \/ att.rename # "none" \/ att.launch # "none") =>
           att.chmod = "ok"
    /\ (alive /\ pc \in {"backup", "rename", "script"}) =>
           (fs[TempPath(att.n)].exists /\ fs[TempPath(att.n)].exec)
    /\ (alive /\ pc \in {"defer", "returned"} /\ att.rename = "ok") =>
           (Exe.exists /\ Exe.exec)
    /\ (alive /\ att.chmod = "fail") =>
           /\ pc \in {"defer", "returned", "sleep", "check"}
           /\ ret = [applied |-> FALSE, err |-> ErrChmod]
           /\ att.backup = "none"
           /\ Exe = att.preExe /\ Bak = att.preBak

C27_Witness ==
    /\ alive /\ pc = "returned" /\ att.chmod = "ok" /\ att.rename = "ok"
    /\ Exe.exec /\ Exe.data = Bytes(att.url)

\* the attempt ended at the chmod
C27_WitnessChmodFailed ==
    /\ alive /\ pc = "returned" /\ att.chmod = "fail"
    /\ ~fs[TempPath(att.n)].exists


\* C28: in the hosted variant an empty release list is no error: the check
\* returns (false, nil), asks for no download and creates or changes no file.
C28_EmptyListIsNoUpdate ==
    (alive /\ variant = "hosted" /\ att.n > 0 /\ att.decoded /\ att.tag = <<>>) =>
        /\ pc \in {"returned", "sleep", "check"}
        /\ ret = [applied |-> FALSE, err |-> Nil]
        /\ att.url = NoURL /\ ~att.temp
        /\ ~fs[TempPath(att.n)].exists
        /\ Exe = att.preExe /\ Bak = att.preBak

C28_Witness ==
    /\ alive /\ variant = "hosted" /\ pc = "returned"
    /\ att.decoded /\ att.tag = <<>>
    /\ ret = [applied |-> FALSE, err |-> Nil]


\* the download of the attempt failed: in transport, by its status, or while
\* the body was written to the temp file
DownloadFailed == att.download \in {"error", "status"} \/ att.write = "fail"

\* C29: an attempt whose download failed returns (false, error) without
\* having reached the backup, its temp file is gone once it has returned, and
\* executablePath and the backup are as the attempt found them.
C29_DownloadFailureLeavesNothing ==
    (alive /\ DownloadFailed) =>
        /\ pc \in {"defer", "returned", "sleep", "check"}
        /\ ret = [applied |-> FALSE,
                  err |-> IF att.download = "error" THEN ErrDownload
                          ELSE IF att.download = "status" THEN ErrStatus
                          ELSE ErrWrite]
        /\ att.chmod = "none" /\ att.backup = "none" /\ att.rename = "none"
        /\ pc # "defer" => ~fs[TempPath(att.n)].exists
        /\ Exe = att.preExe /\ Bak = att.preBak

\* a body that broke off midway: the partly written temp file is removed
C29_Witness ==
    /\ alive /\ pc = "returned" /\ att.write = "fail"
    /\ att.temp /\ ~fs[TempPath(att.n)].exists


(***************************************************************************)
(* The order of the deferred script                                        *)
(***************************************************************************)
\* the lines of update.bat in the order they follow each other
ScriptOrder ==
    { <<"none", "ping">>, <<"ping", "del">>, <<"del", "ping">>, <<"del", "copy">>,
      <<"copy", "start">>, <<"start", "delnew">>, <<"delnew", "delself">>,
      <<"delself", "done">> }

\* C30: the script takes its steps in order: it comes to the copy only from
\* a deletion after which the target does not exist, it starts the target
\* only after the copy line, and it removes the new-binary temp file and
\* then itself last; nothing but its del and copy lines changes the target.
C30_ScriptOrder ==
    [][/\ \A n \in 1..MaxAttempts :
            script'[n].pc # script[n].pc =>
                /\ <<script[n].pc, script'[n].pc>> \in ScriptOrder
                /\ script'[n].pc = "copy" => ~fs'[ExecutablePath].exists
                /\ script[n].pc \notin {"del", "copy"} =>
                       fs'[ExecutablePath] = fs[ExecutablePath]
                /\ script[n].pc = "delnew" => ~fs'[script[n].new].exists
                /\ script[n].pc = "delself" => ~fs'[BatchPath].exists
       /\ (~alive /\ alive') =>
             \E n \in 1..MaxAttempts :
                 script[n].pc = "start" /\ script'[n].pc = "delnew"]_vars

\* a script ran to its end
C30_Witness ==
    \E n \in 1..MaxAttempts :
        /\ script[n].pc = "done"
        /\ ~fs[script[n].new].exists /\ ~fs[BatchPath].exists

(***************************************************************************)
(* The relaunch on the locking path                                        *)
(***************************************************************************)
\* C31: on the locking platform the application is relaunched by the
\* deferred script alone: the host does not spawn a new instance from
\* executablePath after the hand-over to the script, and no instance is
\* started beside a running one.
C31_ScriptAloneRelaunches ==
    IsWindows(platform) => (proc.by # "restart" /\ others = 0)


\* C35: an attempt whose script launch failed has returned (true, error), and
\* the host's step after it restarts nothing: the same process, from the same
\* binary, goes into the interval wait with nothing on disk changed.
C35_LaunchFailureIsFailure ==
    [][(alive /\ pc = "returned" /\ att.launch = "fail") =>
          /\ ret = [applied |-> TRUE, err |-> ErrScript]
          /\ (pc' # pc /\ proc'.end # "killed") =>
                /\ alive' /\ pc' = "sleep"
                /\ running' = running /\ proc' = proc
                /\ att' = att /\ attempts' = attempts
                /\ fs' = fs]_vars

\* the process waits for its next tick after a launch that failed
C35_Witness ==
    /\ alive /\ pc = "sleep" /\ IsWindows(platform)
    /\ att.launch = "fail" /\ ret = [applied |-> TRUE, err |-> ErrScript]
    /\ proc.by = "user" /\ running = 0


(***************************************************************************)
(* The backup across attempts, and after a rollback                        *)
(***************************************************************************)
\* C36: an attempt of a process that finds at executablePath a binary
\* installed by an earlier attempt of its own (the swap succeeded, the
\* restart did not, the process still runs the old binary) never makes the
\* backup a copy of that installed binary.
C36_BackupKeepsPredecessor ==
    (/\ alive /\ ~IsWindows(platform) /\ att.n > 0
     /\ att.preExe.data # Bytes(running)) =>
        ~(Bak.exists /\ Bak.data = att.preExe.data)


\* C37: on the non-locking path, once the replace rename has failed and the
\* rollback rename has succeeded, executablePath holds the bytes it held
\* before the attempt and no file exists at the backup path.
C37_RollbackMovesBackup ==
    (alive /\ pc \in {"defer", "returned"} /\ att.rename = "fail" /\ att.rollback = "ok") =>
        /\ Exe.exists /\ Exe.data = att.preExe.data
        /\ ~Bak.exists

\* rolled back in a second attempt, which had found a backup in place
C37_Witness ==
    /\ alive /\ pc = "returned" /\ ~IsWindows(platform)
    /\ att.rename = "fail" /\ att.rollback = "ok"
    /\ att.preBak.exists /\ ~Bak.exists

(***************************************************************************)
(* The update server                                                       *)
(***************************************************************************)
\* the versions the server has stored: those whose metadata file is there
\* and decodes
StoredVersions ==
    { v \in UploadVersions : store[v].json.exists /\ store[v].json.info # NoInfo }

\* the lexicographically greatest of a set of versions
Greatest(S) == CHOOSE v \in S : \A w \in S : w = v \/ LexLess(w, v)

\* C32: /check answers 200 with the stored metadata of the lexicographically
\* greatest stored version exactly when that version is strictly greater
\* than the current version asked with, and 404 when no version is stored or
\* the greatest one is not greater.
C32_CheckAnswers ==
    [][(sent' # sent /\ sent'.to = "check" /\ sent'.status \in {200, 404}) =>
          IF StoredVersions # {} /\ LexLess(sent'.current, Greatest(StoredVersions))
          THEN /\ sent'.status = 200
               /\ sent'.info = store[Greatest(StoredVersions)].json.info
               /\ sent'.info.version = Greatest(StoredVersions)
          ELSE sent'.status = 404]_vars

\* "9" is offered to a client at "10" by a server that has stored both
C32_Witness ==
    /\ StoredVersions = UploadVersions
    /\ sent.to = "check" /\ sent.status = 200
    /\ sent.current = <<"1", "0">> /\ sent.info.version = <<"9">>

\* "10" stored, asked with "10" and with "9": no update
C32_WitnessNotFound ==
    /\ StoredVersions = { <<"1", "0">> }
    /\ sent.to = "check" /\ sent.status = 404
    /\ sent.current = <<"9">>


\* the server answers an upload request
UploadAnswered ==
    /\ sent'.to = "upload"
    /\ \/ uploads' # uploads /\ up' = up
       \/ \E h \in Handlers : up[h].pc # "idle" /\ up'[h].pc = "idle"

\* the request lacks a form value or the binary part
Lacking(req) ==
    req.platform = <<>> \/ req.arch = <<>> \/ req.version = <<>> \/ ~req.part

\* C33: when an upload is answered 201 the binary and its metadata are
\* stored and the checksum of the metadata is the SHA-256 hex digest of the
\* stored bytes, as verifyChecksum compares it; an upload that lacks the
\* platform, the arch, the version or the binary part is answered 4xx and
\* changes nothing in the store.
C33_UploadStoresDigest ==
    [][UploadAnswered =>
          /\ sent'.status = 201 =>
                LET r == store'[sent'.req.version] IN
                /\ r.bin.exists /\ r.json.exists
                /\ EqualFold(EncodeToString(Sum256(r.bin.data)), r.json.info.checksum)
          /\ Lacking(sent'.req) =>
                (sent'.status \in 400..499 /\ store' = store)]_vars


\* C34: a download answered right after a /check that reported a version
\* serves bytes whose SHA-256 hex digest is the checksum the /check reported
\* for that version, whatever an upload has done by then.
C34_DownloadMatchesCheck ==
    [][(/\ sent.to = "check" /\ sent.status = 200
        /\ sent'.to = "download" /\ sent'.status = 200
        /\ sent'.version = sent.info.version) =>
          EncodeToString(Sum256(sent'.data)) = sent.info.checksum]_vars

====
